---------------------------- MODULE Spec2Model ----------------------------
(***************************************************************************)
(* A model of the AxiSEM database handle (axisem_db.py, class AxiSEMDB)    *)
(* and of the lazily cached info property of BaseInstaseisDB               *)
(* (instaseis/base_instaseis_db.py).                                       *)
(*                                                                         *)
(* The modules mesh, finite_elem_mapping, sem_derivatives, spectral_basis  *)
(* and rotations are imported by axisem_db.py; what they return is either  *)
(* modelled from their documented contract (the k-d tree, the Mesh         *)
(* attributes) or drawn as an input of the query (containment answers,     *)
(* interpolated strain, rotated moment tensor, azimuth factors).           *)
(* axisem_db.py is Python 2 code (xrange; / on integer ids is floor        *)
(* division).                                                              *)
(***************************************************************************)
EXTENDS Integers, Sequences, FiniteSets, TLC

VARIABLES
    db,              \* content of the database folder on disk (never written)
    phase,           \* "new", "ready", "failed" (constructor raised), "deleted"
    ctor_error,      \* exception raised by __init__, "" when none
    files,           \* self.__files : key -> netCDF4 dataset handle
    meshes,          \* self._meshes : key -> Mesh object
    opened,          \* paths of the datasets opened by the handle so far
    closed,          \* paths of the datasets on which close() was invoked
    query,           \* arguments and collaborator answers of the last query
    result,          \* what the last get_seismogram call did and returned
    obj_attrs,       \* instance __dict__ of a BaseInstaseisDB object
    get_info_calls,  \* number of invocations of get_info()
    info_accesses,   \* number of reads of the info property
    last_call        \* outcome of the last BaseInstaseisDB method call

vars == <<db, phase, ctor_error, files, meshes, opened, closed, query, result,
          obj_attrs, get_info_calls, info_accesses, last_call>>

axisem_vars == <<db, phase, ctor_error, files, meshes, opened, closed, query,
                 result>>

base_vars == <<obj_attrs, get_info_calls, info_accesses, last_call>>

-----------------------------------------------------------------------------
(* Bounds of the model.                                                    *)

\* Number of elements of the mesh.
NElem == 7

\* Largest number of time dumps (mesh.ndumps) of a database.
MaxDumps == 2

\* Largest polynomial order (mesh.npol) of a database.
MaxNpol == 1

\* Largest number of BaseInstaseisDB method calls on one object.
MaxCalls == 3

-----------------------------------------------------------------------------
(* Program constants.                                                      *)

\* k of the spatial-index query.
K == 6

Keys == {"px", "pz"}

DispVars == <<"disp_s", "disp_p", "disp_z">>

SupportedDumpType == "displ_only"

StrainFctMap == {"monopole", "dipole", "quadpole"}

-----------------------------------------------------------------------------
(* The database folder.  A path is the tuple of its components below the   *)
(* folder given to the constructor.                                        *)

Join(path, name) == Append(path, name)

PxDir == Join(<<>>, "PX")

PzDir == Join(<<>>, "PZ")

PxFile == Join(Join(PxDir, "Data"), "ordered_output.nc4")

PzFile == Join(Join(PzDir, "Data"), "ordered_output.nc4")

Exists(path) == path \in db.exists

\* A dump_type attribute is a blank-padded string, kept as its sequence of
\* tokens; strip() removes the blanks at both ends.
RECURSIVE LStrip(_)
LStrip(s) == IF s # <<>> /\ Head(s) = " " THEN LStrip(Tail(s)) ELSE s

RECURSIVE RStrip(_)
RStrip(s) ==
    IF s # <<>> /\ s[Len(s)] = " " THEN RStrip(SubSeq(s, 1, Len(s) - 1))
    ELSE s

Strip(s) == RStrip(LStrip(s))

DumpTypes == { <<"displ_only">>, <<"displ_only", " ">>, <<"fullfields">> }

ExcitationTypes == StrainFctMap \cup {"octopole"}

\* The folders the constructor can be pointed at: a file below a missing
\* directory does not exist, and only an existing file can be a readable
\* netCDF file.
Folders ==
    { f \in [exists : SUBSET {PxDir, PzDir, PxFile, PzFile},
             readable : SUBSET {PxFile, PzFile}] :
        /\ (PxFile \in f.exists => PxDir \in f.exists)
        /\ (PzFile \in f.exists => PzDir \in f.exists)
        /\ f.readable \subseteq f.exists }

-----------------------------------------------------------------------------
(* Content of the Mesh group of a database file: a strip of NElem square   *)
(* elements along the S axis; element idx has its first corner at          *)
(* (3 * idx, 0).  The element type and the axis flag are only handed on to *)
(* inside_element and to the strain functions, and are left out.           *)

Elements == 0 .. (NElem - 1)

\* mesh.variables["fem_mesh"][idx][:4]
FemMesh(idx) == <<idx, idx + 1, NElem + 2 + idx, NElem + 1 + idx>>

\* mesh.variables["mesh_S"][i]
MeshS(i) == 3 * (i % (NElem + 1))

\* mesh.variables["mesh_Z"][i]
MeshZ(i) == 3 * (i \div (NElem + 1))

\* mesh.variables["sem_mesh"][idx], an (npol+1) x (npol+1) grid of the ids
\* of the element's GLL points.
SemMesh(idx, npol) ==
    [p \in (0 .. npol) \X (0 .. npol) |->
        idx * (npol + 1) * (npol + 1) + p[1] * (npol + 1) + p[2]]

\* Snapshots variable var, time sample t, at GLL point id: every stored
\* sample differs from every other one and from zero.
Snapshot(var, t, id) ==
    LET c == CHOOSE i \in 1 .. 3 : DispVars[i] = var
    IN 10000 * c + 1000 * (t + 1) + id

\* mesh.amplitude
Amplitude == 2

\* mesh.chunks[1]
ChunkLen == 2

\* netCDF4.Dataset(path, "r"): a handle on the file at path.
Dataset(path) == [type |-> "Dataset", path |-> path]

\* mesh.Mesh(dataset): the attributes of the file that get_seismogram reads,
\* and the k-d tree over the first corner of every element.
Mesh(dataset) ==
    [f |-> dataset,
     dump_type |-> db.dump_type,
     excitation_type |-> db.excitation_type,
     ndumps |-> db.ndumps,
     npol |-> db.npol,
     amplitude |-> Amplitude,
     chunks |-> <<db.ndumps, ChunkLen>>,
     kdtree |-> [e \in Elements |->
                    <<MeshS(FemMesh(e)[1]), MeshZ(FemMesh(e)[1])>>]]

Dist2(p, r) == (p[1] - r[1]) * (p[1] - r[1]) + (p[2] - r[2]) * (p[2] - r[2])

\* kdtree.query(point, k)[1]: the indices of the k points of the tree nearest
\* to point, nearest first (the mesh has at least k elements).
RECURSIVE KdQuery(_, _, _, _)
KdQuery(tree, left, point, k) ==
    IF k = 0 \/ left = {} THEN <<>>
    ELSE LET n == CHOOSE e \in left :
                    \A o \in left :
                        \/ Dist2(point, tree[e]) < Dist2(point, tree[o])
                        \/ (Dist2(point, tree[e]) = Dist2(point, tree[o])
                            /\ e <= o)
         IN <<n>> \o KdQuery(tree, left \ {n}, point, k - 1)

-----------------------------------------------------------------------------
(* AxiSEMDB.__init__ and _find_and_open_files                              *)

NoEntries == [k \in {} |-> 0]

Put(table, k, v) == [x \in (DOMAIN table) \cup {k} |->
                        IF x = k THEN v ELSE table[x]]

\* _find_and_open_files with "and" for "or" in the test of the two files.
find_and_open_files_and ==
    LET none == [error |-> "", files |-> NoEntries, meshes |-> NoEntries,
                 opened |-> {}]
    IN  IF ~Exists(PxDir) \/ ~Exists(PzDir)
        THEN [none EXCEPT !.error = "ValueError"]
        ELSE IF ~Exists(PxFile) /\ ~Exists(PzFile)
        THEN [none EXCEPT !.error = "ValueError"]
        ELSE IF PxFile \notin db.readable
        THEN [none EXCEPT !.error = "IOError"]
        ELSE IF PzFile \notin db.readable
        THEN [none EXCEPT !.error = "IOError",
                          !.files = Put(NoEntries, "px", Dataset(PxFile)),
                          !.opened = {PxFile}]
        ELSE [error |-> "",
              files |-> Put(Put(NoEntries, "px", Dataset(PxFile)), "pz",
                            Dataset(PzFile)),
              meshes |-> Put(Put(NoEntries, "px", Mesh(Dataset(PxFile))),
                             "pz", Mesh(Dataset(PzFile))),
              opened |-> {PxFile, PzFile}]

\* The handle as _find_and_open_files leaves it, and the exception it raised.
find_and_open_files ==
    LET none == [error |-> "", files |-> NoEntries, meshes |-> NoEntries,
                 opened |-> {}]
    IN  IF ~Exists(PxDir) \/ ~Exists(PzDir)
        THEN [none EXCEPT !.error = "ValueError"]
        ELSE IF ~Exists(PxFile) \/ ~Exists(PzFile)
        THEN [none EXCEPT !.error = "ValueError"]
        ELSE IF PxFile \notin db.readable
        THEN [none EXCEPT !.error = "IOError"]
        ELSE IF PzFile \notin db.readable
        THEN [none EXCEPT !.error = "IOError",
                          !.files = Put(NoEntries, "px", Dataset(PxFile)),
                          !.opened = {PxFile}]
        ELSE LET f1 == Put(NoEntries, "px", Dataset(PxFile))
                 f2 == Put(f1, "pz", Dataset(PzFile))
                 m1 == Put(NoEntries, "px", Mesh(f2["px"]))
                 m2 == Put(m1, "pz", Mesh(f2["pz"]))
             IN [error |-> "", files |-> f2, meshes |-> m2,
                 opened |-> {PxFile, PzFile}]

\* No query issued yet.
NoQuery ==
    [point |-> <<0, 0>>, inside |-> {}, component |-> "", strain |-> <<>>,
     mij_rot |-> <<>>, fac_1 |-> 0, fac_2 |-> 0]

\* No call of get_seismogram yet.  kind is "series" for a returned time
\* series, "None" for a return without a value, and otherwise the exception.
NoResult ==
    [kind |-> "", tested |-> <<>>, id_elem |-> -1,
     corner_points |-> <<>>, loaded |-> FALSE, utemp |-> <<>>,
     strain_derived |-> FALSE, interpolated |-> FALSE, final |-> <<>>]

Construct ==
    /\ phase = "new"
    /\ LET r == find_and_open_files
       IN /\ files' = r.files
          /\ meshes' = r.meshes
          /\ opened' = r.opened
          /\ ctor_error' = r.error
          /\ phase' = IF r.error = "" THEN "ready" ELSE "failed"
    /\ UNCHANGED <<db, closed, query, result>>
    /\ UNCHANGED base_vars

-----------------------------------------------------------------------------
(* AxiSEMDB.__del__                                                        *)

\* dict.items(): (key, value) tuples.
Items(table) ==
    { [type |-> "tuple", key |-> k, value |-> table[k]] : k \in DOMAIN table }

\* Whether obj.close() can be called: a tuple has no close attribute, and
\* the AttributeError is swallowed by the bare except.
HasClose(obj) == obj.type = "Dataset"

\* The datasets on which __del__ invokes close().
DelCloses(table) ==
    { it.value.path : it \in { o \in Items(table) : HasClose(o) } }

Del ==
    /\ phase \in {"ready", "failed"}
    /\ phase' = "deleted"
    /\ closed' = closed \cup DelCloses(files)
    /\ UNCHANGED <<db, ctor_error, files, meshes, opened, query, result>>
    /\ UNCHANGED base_vars

-----------------------------------------------------------------------------
(* AxiSEMDB.get_seismogram: the element search                             *)

\* corner_points of element idx: (mesh_S, mesh_Z) of its four corners.
CornerPoints(idx) ==
    [c \in 1 .. 4 |-> <<MeshS(FemMesh(idx)[c]), MeshZ(FemMesh(idx)[c])>>]

\* isin of finite_elem_mapping.inside_element for element idx: inside is
\* the set of elements the mapping reports the query point to lie in.
IsIn(inside, idx) == idx \in inside

\* The loop without its break: the last containing candidate wins.
SearchElement_nobreak(nextpoints, n, inside) ==
    LET hits == { i \in n .. Len(nextpoints) : IsIn(inside, nextpoints[i]) }
    IN  IF hits = {}
        THEN [found |-> FALSE, id_elem |-> -1, corner_points |-> <<>>,
              tested |-> nextpoints]
        ELSE LET m == CHOOSE i \in hits : \A j \in hits : j <= i
             IN [found |-> TRUE, id_elem |-> nextpoints[m],
                 corner_points |-> CornerPoints(nextpoints[m]),
                 tested |-> nextpoints]

\* The for/else loop over nextpoints[1], from its n-th iteration on.
RECURSIVE SearchElement(_, _, _)
SearchElement(nextpoints, n, inside) ==
    IF n > Len(nextpoints)
    THEN [found |-> FALSE, id_elem |-> -1, corner_points |-> <<>>,
          tested |-> nextpoints]
    ELSE LET idx == nextpoints[n]
             corner_points == CornerPoints(idx)
             isin == IsIn(inside, idx)
         IN IF isin
            THEN [found |-> TRUE, id_elem |-> idx,
                  corner_points |-> corner_points,
                  tested |-> SubSeq(nextpoints, 1, n)]
            ELSE SearchElement(nextpoints, n + 1, inside)

-----------------------------------------------------------------------------
(* AxiSEMDB.get_seismogram: the displacement buffer                        *)

\* start_chunk without the second assignment: the chunk-aligned id.
StartChunk_aligned(gll_id, chunk) == (gll_id \div chunk) * chunk

\* start_chunk: the chunk-aligned id is computed and then overwritten by
\* the raw id of the GLL point.
StartChunk(gll_id, chunk) ==
    LET aligned == (gll_id \div chunk) * chunk
        start_chunk == gll_id
    IN start_chunk

\* np.zeros((ndumps, npol + 1, npol + 1, 3))
Zeros(ndumps, npol) ==
    [x \in (0 .. ndumps - 1) \X (0 .. npol) \X (0 .. npol) \X (0 .. 2) |-> 0]

\* utemp[:, jpol, ipol, i] = mesh_dict[var][:, start_chunk]
AssignColumn(utemp, jpol, ipol, i, var, start_chunk) ==
    [x \in DOMAIN utemp |->
        IF x[2] = jpol /\ x[3] = ipol /\ x[4] = i
        THEN Snapshot(var, x[1], start_chunk)
        ELSE utemp[x]]

\* The n-th iteration of the three nested loops: (ipol, jpol, i).
LoopOrder(n, npol) ==
    <<(n - 1) \div (3 * (npol + 1)), ((n - 1) \div 3) % (npol + 1),
      (n - 1) % 3>>

\* The loading loop from its n-th iteration on.
RECURSIVE LoadDisplacement(_, _, _, _, _)
LoadDisplacement(utemp, n, mesh, mesh_dict, gll_point_ids) ==
    IF n > (mesh.npol + 1) * (mesh.npol + 1) * 3 THEN utemp
    ELSE LET ipol == LoopOrder(n, mesh.npol)[1]
             jpol == LoopOrder(n, mesh.npol)[2]
             i == LoopOrder(n, mesh.npol)[3]
             var == DispVars[i + 1]
             start_chunk == StartChunk(gll_point_ids[<<ipol, jpol>>],
                                       mesh.chunks[2])
         IN IF var \notin mesh_dict
            THEN LoadDisplacement(utemp, n + 1, mesh, mesh_dict,
                                  gll_point_ids)
            ELSE LoadDisplacement(
                     AssignColumn(utemp, jpol, ipol, i, var, start_chunk),
                     n + 1, mesh, mesh_dict, gll_point_ids)

-----------------------------------------------------------------------------
(* AxiSEMDB.get_seismogram: the contraction.  Sequences are indexed from 1, *)
(* so final_strain[:, i] of the code is component i + 1 here.              *)

\* final_strain[:, 3] *= -1.0 ; final_strain[:, 5] *= -1.0
FlipStrain(final_strain) ==
    [t \in DOMAIN final_strain |->
        [final_strain[t] EXCEPT ![4] = (-1) * @, ![6] = (-1) * @]]

\* mij /= mesh.amplitude
Normalise(mij, amplitude) == [i \in DOMAIN mij |-> mij[i] \div amplitude]

\* The accumulations without the doubling of the off-diagonal terms.
Contract_single(final_strain, mij, fac_1, fac_2) ==
    [t \in DOMAIN final_strain |->
        (-1) * (final_strain[t][1] * mij[1] * fac_1
                + final_strain[t][2] * mij[2] * fac_1
                + final_strain[t][3] * mij[3] * fac_1
                + final_strain[t][4] * mij[4] * fac_2
                + final_strain[t][5] * mij[5] * fac_1
                + final_strain[t][6] * mij[6] * fac_2)]

\* The six accumulations into final, and the final sign flip.
Contract(final_strain, mij, fac_1, fac_2) ==
    [t \in DOMAIN final_strain |->
        LET f0 == 0
            f1 == f0 + final_strain[t][1] * mij[1] * 1 * fac_1
            f2 == f1 + final_strain[t][2] * mij[2] * 1 * fac_1
            f3 == f2 + final_strain[t][3] * mij[3] * 1 * fac_1
            f4 == f3 + final_strain[t][4] * mij[4] * 2 * fac_2
            f5 == f4 + final_strain[t][5] * mij[5] * 2 * fac_1
            f6 == f5 + final_strain[t][6] * mij[6] * 2 * fac_2
        IN (-1) * f6]

-----------------------------------------------------------------------------
(* AxiSEMDB.get_seismogram                                                 *)

\* mesh.f.groups["Snapshots"].variables: the displacement variables stored.
SnapshotVariables(dataset) == db.vars

\* The call get_seismogram(source, receiver, component) on the handle, where
\* q holds component and what the collaborators answer for this source and
\* receiver: the rotated receiver point, the elements that contain it, the
\* interpolated strain, the rotated moment tensor and the azimuth factors.
get_seismogram(q) ==
    LET nextpoints == KdQuery(meshes["px"].kdtree,
                              DOMAIN meshes["px"].kdtree, q.point, K)
        search == SearchElement(nextpoints, 1, q.inside)
        located == [NoResult EXCEPT !.tested = search.tested,
                                    !.id_elem = search.id_elem,
                                    !.corner_points = search.corner_points]
    IN  IF ~search.found
        THEN [located EXCEPT !.kind = "ValueError"]
        ELSE
        LET mesh == meshes["px"]
            gll_point_ids == SemMesh(search.id_elem, mesh.npol)
        IN  IF q.component = "N"
            THEN
                IF Strip(mesh.dump_type) # <<SupportedDumpType>>
                THEN [located EXCEPT !.kind = "NotImplementedError"]
                ELSE
                LET utemp == LoadDisplacement(
                                 Zeros(mesh.ndumps, mesh.npol), 1, mesh,
                                 SnapshotVariables(mesh.f), gll_point_ids)
                    loaded == [located EXCEPT !.loaded = TRUE,
                                              !.utemp = utemp]
                IN  IF mesh.excitation_type \notin StrainFctMap
                    THEN [loaded EXCEPT !.kind = "KeyError"]
                    ELSE
                    LET final_strain == FlipStrain(q.strain)
                        mij == Normalise(q.mij_rot, mesh.amplitude)
                        final == Contract(final_strain, mij, q.fac_1,
                                          q.fac_2)
                    IN [loaded EXCEPT !.kind = "series",
                                      !.strain_derived = TRUE,
                                      !.interpolated = TRUE,
                                      !.final = final]
            ELSE [located EXCEPT !.kind = "None"]

\* A call that drops the meshes of the handle when it raises.
SelfAfterQuery_reset(self, res) ==
    IF res.kind \in {"ValueError", "NotImplementedError", "KeyError"}
    THEN [self EXCEPT !.meshes = NoEntries]
    ELSE self

\* The attributes of self after a call: get_seismogram assigns none of them
\* (mesh is a local name).
SelfAfterQuery(self, res) == self

\* One call of get_seismogram with arguments q.
Call(q) ==
    LET res == get_seismogram(q)
        self == [files |-> files, meshes |-> meshes, opened |-> opened,
                 closed |-> closed]
        after == SelfAfterQuery(self, res)
    IN /\ query' = q
       /\ result' = res
       /\ files' = after.files
       /\ meshes' = after.meshes
       /\ opened' = after.opened
       /\ closed' = after.closed
       /\ UNCHANGED <<db, phase, ctor_error>>
       /\ UNCHANGED base_vars

\* The rotated receiver points (rotmesh_s, rotmesh_z): in the element at the
\* axis, in the middle of the mesh, and far outside the mesh.
Points == { <<1, 1>>, <<3 * (NElem \div 2) + 1, 1>>, <<6 * NElem, 1>> }

\* The answers of inside_element for one point: no element, one element, or
\* the two elements that share the edge the point lies on.
InsideSets ==
    {{}} \cup { {e} : e \in Elements }
         \cup { {e, e + 1} : e \in 0 .. (NElem - 2) }

Components == {"N", "Z"}

StrainOnes(ndumps) == [t \in 1 .. ndumps |-> <<1, 1, 1, 1, 1, 1>>]

TensorOnes == [i \in 1 .. 6 |-> Amplitude]

GetSeismogram ==
    /\ phase = "ready"
    /\ \E point \in Points, inside \in InsideSets, component \in Components :
          Call([point |-> point, inside |-> inside, component |-> component,
                strain |-> StrainOnes(meshes["px"].ndumps),
                mij_rot |-> TensorOnes, fac_1 |-> 1, fac_2 |-> 1])

-----------------------------------------------------------------------------
(* The handle's life: construction, queries, teardown.                     *)

AllVars == { DispVars[i] : i \in 1 .. 3 }

\* No BaseInstaseisDB method called yet.
NoCall ==
    [op |-> "", kind |-> "", raised |-> "", warning |-> "",
     source |-> [type |-> "", depth_in_m |-> ""],
     receiver |-> [type |-> "", depth_in_m |-> ""], info |-> NoEntries]

BaseIdle ==
    /\ obj_attrs = NoEntries
    /\ get_info_calls = 0
    /\ info_accesses = 0
    /\ last_call = NoCall

Init ==
    /\ \E f \in Folders, d \in DumpTypes, x \in ExcitationTypes :
          db = [exists |-> f.exists, readable |-> f.readable,
                dump_type |-> d, excitation_type |-> x, vars |-> AllVars,
                ndumps |-> 2, npol |-> 1]
    /\ phase = "new"
    /\ ctor_error = ""
    /\ files = NoEntries
    /\ meshes = NoEntries
    /\ opened = {}
    /\ closed = {}
    /\ query = NoQuery
    /\ result = NoResult
    /\ BaseIdle

Next == Construct \/ GetSeismogram \/ Del

Spec == Init /\ [][Next]_vars

-----------------------------------------------------------------------------
(* One query on a freshly opened handle, its arguments drawn beforehand:   *)
(* the displacement buffer and the contraction are functions of them.      *)

\* The handle right after a successful __init__ on database d.
Opened(d) ==
    /\ db = d
    /\ phase = "ready"
    /\ ctor_error = find_and_open_files.error
    /\ files = find_and_open_files.files
    /\ meshes = find_and_open_files.meshes
    /\ opened = find_and_open_files.opened
    /\ closed = {}
    /\ result = NoResult
    /\ BaseIdle

CompleteFolder ==
    [exists |-> {PxDir, PzDir, PxFile, PzFile}, readable |-> {PxFile, PzFile}]

Evaluate ==
    /\ phase = "ready"
    /\ result = NoResult
    /\ Call(query)

NextEvaluate == Evaluate

\* Databases that store any subset of the displacement variables.
InitBuffer ==
    /\ \E v \in SUBSET AllVars, nd \in 1 .. MaxDumps, np \in 1 .. MaxNpol :
          Opened([exists |-> CompleteFolder.exists,
                  readable |-> CompleteFolder.readable,
                  dump_type |-> <<SupportedDumpType>>,
                  excitation_type |-> "monopole", vars |-> v,
                  ndumps |-> nd, npol |-> np])
    /\ \E point \in Points, e \in Elements :
          query = [point |-> point, inside |-> {e}, component |-> "N",
                   strain |-> StrainOnes(db.ndumps), mij_rot |-> TensorOnes,
                   fac_1 |-> 1, fac_2 |-> 1]

SpecBuffer == InitBuffer /\ [][NextEvaluate]_vars

\* Interpolated strain at one time sample: one component alone, or all six.
StrainVecs ==
    { [i \in 1 .. 6 |-> IF i = c THEN 1 ELSE 0] : c \in 1 .. 6 }
        \cup { <<1, 2, 3, 4, 5, 6>> }

\* Rotated moment tensors before normalisation: one component alone, the
\* diagonal, or all six.
Tensors ==
    { [i \in 1 .. 6 |-> IF i = c THEN Amplitude ELSE 0] : c \in 1 .. 6 }
        \cup { [i \in 1 .. 6 |-> IF i <= 3 THEN Amplitude * i ELSE 0],
               [i \in 1 .. 6 |-> Amplitude * i] }

\* Values of the azimuth factors.
Factors == {-1, 2}

InitContract ==
    /\ \E nd \in 1 .. MaxDumps :
          Opened([exists |-> CompleteFolder.exists,
                  readable |-> CompleteFolder.readable,
                  dump_type |-> <<SupportedDumpType>>,
                  excitation_type |-> "monopole", vars |-> AllVars,
                  ndumps |-> nd, npol |-> 1])
    /\ \E strain \in [1 .. db.ndumps -> StrainVecs], mij_rot \in Tensors,
          fac_1 \in Factors, fac_2 \in Factors :
          query = [point |-> <<1, 1>>, inside |-> {0}, component |-> "N",
                   strain |-> strain, mij_rot |-> mij_rot,
                   fac_1 |-> fac_1, fac_2 |-> fac_2]

SpecContract == InitContract /\ [][NextEvaluate]_vars

-----------------------------------------------------------------------------
(* BaseInstaseisDB: the info property and _get_seismograms_sanity_checks   *)

\* The name an identifier __name written inside class cls stands for.
Mangle(cls, name) == "_" \o cls \o name

\* Names defined on the class and looked up by hasattr after the instance
\* dictionary.
ClassAttrs ==
    {"get_seismograms", "get_info", "get_seismograms_finite_source",
     "_get_seismograms_sanity_checks", "_get_band_code", "info", "__str__"}

\* hasattr(self, name): name is a string and is looked up as written.
HasAttr(attrs, name) == name \in (DOMAIN attrs) \cup ClassAttrs

\* get_info() of the concrete database, the n-th time it is called.
get_info(n) == [is_reciprocal |-> db.is_reciprocal, computed |-> n]

\* The info property: the instance dictionary after the access, the number
\* of get_info() calls it made, and the value returned.
InfoProperty(attrs, calls) ==
    LET cached == Mangle("BaseInstaseisDB", "__cached_info")
        compute == ~HasAttr(attrs, "__cached_info")
        after == IF compute THEN Put(attrs, cached, get_info(calls + 1))
                 ELSE attrs
    IN [attrs |-> after,
        calls |-> IF compute THEN calls + 1 ELSE calls,
        value |-> after[cached]]

\* A read of db.info.
Info ==
    /\ info_accesses < MaxCalls
    /\ LET r == InfoProperty(obj_attrs, get_info_calls)
       IN /\ obj_attrs' = r.attrs
          /\ get_info_calls' = r.calls
          /\ info_accesses' = info_accesses + 1
          /\ last_call' = [NoCall EXCEPT !.op = "info", !.info = r.value]
    /\ UNCHANGED axisem_vars

SourceArgs ==
    [type : {"Source", "ForceSource", "filename"}, depth_in_m : {"None", "m"}]

\* A Receiver object, or something Receiver.parse() reads stations from.
ReceiverArgs ==
    { r \in [type : {"Receiver", "filename"}, stations : 1 .. 2,
             depth_in_m : {"None", "m"}] :
        r.type = "Receiver" => r.stations = 1 }

Kinds == {"displacement", "velocity", "acceleration", "jerk"}

\* _get_seismograms_sanity_checks(source, receiver, kind)
SanityChecks(source, receiver, kind) ==
    /\ info_accesses < MaxCalls
    /\ LET src == IF source.type \notin {"Source", "ForceSource"}
                  THEN [source EXCEPT !.type = "Source"]
                  ELSE source
           multiple == receiver.type # "Receiver" /\ receiver.stations # 1
           rec == [type |-> "Receiver", depth_in_m |-> receiver.depth_in_m]
           call == [NoCall EXCEPT !.op = "sanity_checks", !.kind = kind]
       IN  IF multiple \/ kind \notin {"displacement", "velocity",
                                       "acceleration"}
           THEN /\ last_call' = [call EXCEPT !.raised = "ValueError"]
                /\ UNCHANGED <<obj_attrs, get_info_calls, info_accesses>>
           ELSE LET r == InfoProperty(obj_attrs, get_info_calls)
                    warning ==
                        IF r.value.is_reciprocal
                        THEN IF rec.depth_in_m # "None"
                             THEN "receiver depth" ELSE ""
                        ELSE IF src.depth_in_m # "None"
                             THEN "source depth" ELSE ""
                IN /\ obj_attrs' = r.attrs
                   /\ get_info_calls' = r.calls
                   /\ info_accesses' = info_accesses + 1
                   /\ last_call' = [call EXCEPT !.warning = warning,
                                                !.source = src,
                                                !.receiver = rec,
                                                !.info = r.value]
    /\ UNCHANGED axisem_vars

InitInfo ==
    /\ \E b \in BOOLEAN : db = [is_reciprocal |-> b]
    /\ phase = "new"
    /\ ctor_error = ""
    /\ files = NoEntries
    /\ meshes = NoEntries
    /\ opened = {}
    /\ closed = {}
    /\ query = NoQuery
    /\ result = NoResult
    /\ BaseIdle

NextInfo ==
    \/ Info
    \/ \E source \in SourceArgs, receiver \in ReceiverArgs, kind \in Kinds :
          SanityChecks(source, receiver, kind)

SpecInfo == InitInfo /\ [][NextInfo]_vars

-----------------------------------------------------------------------------
(* Properties of get_seismogram on the handle (specification Spec)         *)

\* C1: the candidates of the k-d tree query are tested nearest first; the
\* element used is the first candidate reported to contain the point, no
\* candidate after it is tested, and when no candidate contains the point
\* the call raises ValueError without using any element.
C1_FirstContainingCandidateIsUsed ==
    result.kind # "" =>
        LET cands == KdQuery(meshes["px"].kdtree, Elements, query.point, K)
            n == Len(result.tested)
        IN /\ Len(cands) = K
           /\ n <= K
           /\ result.tested = SubSeq(cands, 1, n)
           /\ \A i \in 1 .. (n - 1) : cands[i] \notin query.inside
           /\ IF \E i \in 1 .. K : cands[i] \in query.inside
              THEN /\ result.kind # "ValueError"
                   /\ result.id_elem = cands[n]
                   /\ result.id_elem \in query.inside
                   /\ result.corner_points = CornerPoints(result.id_elem)
              ELSE /\ result.kind = "ValueError"
                   /\ n = K
                   /\ result.id_elem = -1
                   /\ ~result.loaded
                   /\ result.final = <<>>

\* C1 witness: the nearest candidate does not contain the point, the second
\* does, and a farther candidate that also contains it was never tested.
C1_Witness ==
    /\ result.kind = "series"
    /\ Len(result.tested) = 2
    /\ \E e \in query.inside :
          e # result.id_elem /\ \A i \in 1 .. 2 : result.tested[i] # e

\* C2: every query against a database whose dump_type is not displ_only
\* raises NotImplementedError and runs no load, strain or interpolation
\* step, whatever the requested component; stated for the receivers that an
\* element is found for (for the others the search raises first).
C2_UnsupportedDumpTypeAlwaysRaises ==
    ( /\ result.kind # ""
      /\ result.id_elem # -1
      /\ Strip(db.dump_type) # <<SupportedDumpType>> ) =>
        /\ result.kind = "NotImplementedError"
        /\ ~result.loaded
        /\ ~result.strain_derived
        /\ ~result.interpolated

\* C3: every call either returns a time series with ndumps samples or raises
\* an error; it never returns without a time series.
C3_SeriesOrError ==
    result.kind # "" =>
        \/ result.kind = "series" /\ Len(result.final) = db.ndumps
        \/ result.kind \in {"ValueError", "NotImplementedError", "KeyError"}

\* C4: a query that reaches the strain dispatch (component N, element found,
\* dump type supported) on a database whose excitation_type has no strain
\* formula raises the error kind of the unsupported dump type,
\* NotImplementedError, and not the kind of the element-not-found error.
C4_UnsupportedExcitationRaisesSameKind ==
    ( /\ result.kind # ""
      /\ query.component = "N"
      /\ result.id_elem # -1
      /\ Strip(db.dump_type) = <<SupportedDumpType>>
      /\ db.excitation_type \notin StrainFctMap ) =>
        /\ result.kind = "NotImplementedError"
        /\ result.kind # "ValueError"

\* C5: a query that raises leaves the table of open files, the meshes and
\* the datasets opened and closed by the handle as they were.
C5_FailedQueryLeavesHandle ==
    [][ ( /\ phase = "ready"
          /\ phase' = "ready"
          /\ result'.kind \in {"ValueError", "NotImplementedError",
                               "KeyError"} ) =>
            /\ files' = files
            /\ meshes' = meshes
            /\ opened' = opened
            /\ closed' = closed ]_vars

\* C5 witness: a query has raised on a handle that is still in use, with
\* both files and both meshes in place.
C5_Witness ==
    /\ phase = "ready"
    /\ result.kind = "NotImplementedError"
    /\ DOMAIN files = Keys
    /\ DOMAIN meshes = Keys

\* C6: when PX, PZ or one of the two ordered_output.nc4 files is missing the
\* constructor raises ValueError before any dataset is opened or any Mesh
\* is built; when it raises nothing both px and pz are in the file table
\* and in the mesh table.
C6_MissingPartsRaiseBeforeOpening ==
    phase # "new" =>
        /\ ({PxDir, PzDir, PxFile, PzFile} \subseteq db.exists
            \/ ( /\ ctor_error = "ValueError"
                 /\ opened = {}
                 /\ files = NoEntries
                 /\ meshes = NoEntries ))
        /\ (ctor_error = "" =>
                DOMAIN files = Keys /\ DOMAIN meshes = Keys)

\* C6 witness: construction failed on a folder that has both subfolders and
\* the PX file, but no PZ file.
C6_Witness ==
    /\ phase = "failed"
    /\ db.exists = {PxDir, PzDir, PxFile}
    /\ PxFile \in db.readable

\* C10: after teardown close() has been invoked on every dataset the handle
\* opened.
C10_TeardownClosesEveryDataset ==
    phase = "deleted" => opened \subseteq closed

-----------------------------------------------------------------------------
(* Properties of the displacement buffer (specification SpecBuffer)        *)

\* C7: a displacement variable absent from the field store raises nothing
\* and leaves its slot of the buffer zero at every sample and node; a
\* variable present fills buffer[:, jpol, ipol, i] with the history stored at
\* the raw GLL point id gll_point_ids[ipol, jpol], i being its position in
\* (disp_s, disp_p, disp_z).
C7_BufferHoldsRawNodeHistories ==
    (result.kind # "" /\ result.id_elem # -1) =>
        /\ result.kind = "series"
        /\ result.loaded
        /\ DOMAIN result.utemp =
              (0 .. db.ndumps - 1) \X (0 .. db.npol) \X (0 .. db.npol)
                  \X (0 .. 2)
        /\ \A t \in 0 .. db.ndumps - 1, ipol \in 0 .. db.npol,
              jpol \in 0 .. db.npol, i \in 0 .. 2 :
              result.utemp[<<t, jpol, ipol, i>>] =
                  IF DispVars[i + 1] \in db.vars
                  THEN Snapshot(DispVars[i + 1], t,
                           SemMesh(result.id_elem, db.npol)[<<ipol, jpol>>])
                  ELSE 0

\* C7 witness: a buffer was built for an element away from the axis from a
\* store that holds disp_s and disp_z but not disp_p.
C7_Witness ==
    /\ result.kind = "series"
    /\ result.loaded
    /\ result.id_elem >= 1
    /\ db.vars = {"disp_s", "disp_z"}

-----------------------------------------------------------------------------
(* Properties of the contraction (specification SpecContract)              *)

\* C8: every sample returned is -1 times the sum over the six Voigt
\* components of strain * moment * multiplicity * azimuth factor, with
\* multiplicities (1,1,1,2,2,2), strain components 3 and 5 (counted from 0)
\* negated and the moment normalised by the amplitude; with moment components
\* 3, 4, 5 zero only strain components 0, 1, 2 enter, without a factor 2.
C8_VoigtContraction ==
    result.kind = "series" =>
        /\ Len(result.final) = db.ndumps
        /\ \A t \in 1 .. db.ndumps :
              LET e == query.strain[t]
                  m == [i \in 1 .. 6 |-> query.mij_rot[i] \div Amplitude]
                  a == query.fac_1
                  b == query.fac_2
              IN /\ result.final[t] =
                       (-1) * ( e[1] * m[1] * a + e[2] * m[2] * a
                                + e[3] * m[3] * a - e[4] * m[4] * 2 * b
                                + e[5] * m[5] * 2 * a - e[6] * m[6] * 2 * b )
                 /\ (m[4] = 0 /\ m[5] = 0 /\ m[6] = 0) =>
                       result.final[t] =
                           (-1) * (e[1] * m[1] + e[2] * m[2] + e[3] * m[3])
                                * a

\* C8 witness: a series was returned for a strain and a moment tensor that
\* both have a nonzero component 3, under two different azimuth factors.
C8_Witness ==
    /\ result.kind = "series"
    /\ query.strain[1][4] # 0
    /\ query.mij_rot[4] # 0
    /\ query.fac_1 # query.fac_2

-----------------------------------------------------------------------------
(* Properties of the info property (specification SpecInfo)                *)

\* C9: get_info() is invoked exactly once, on the first access of info, and
\* every later access returns the value cached then.
C9_GetInfoCalledOnce ==
    info_accesses >= 1 =>
        /\ get_info_calls = 1
        /\ (last_call.op # "" /\ last_call.raised = "" =>
                last_call.info = get_info(1))

=============================================================================
